---------------------------- MODULE Spec2Model ----------------------------
(***************************************************************************)
(* Model of the sentiment pipeline of app/sentiment/analyzer.py: the lazy, *)
(* lock-guarded backend registry (load_models), the per-item and batch     *)
(* classification (classify_comment, classify_comments) and the rule       *)
(* adjustment engine (_adjust_sentiment_with_rules).                       *)
(*                                                                         *)
(* Scores are Python floats in the source.  Here a score is a number of    *)
(* hundredths, and a distribution is a record                              *)
(*   [positive, negative, neutral, den]                                    *)
(* standing for positive/den, negative/den, neutral/den, so that the       *)
(* division of the renormalisation and of the ensemble mean is exact.      *)
(***************************************************************************)
EXTENDS Integers, Sequences, FiniteSets, TLC

(***************************************************************************)
(* Bounds of the model.                                                    *)
(***************************************************************************)
\* calls of load_models made in one behaviour of SpecLoad
MaxCalls == 3
\* calls of classify_comments made in one behaviour of Spec
MaxBatchCalls == 2
\* items of one batch given to classify_comments
MaxBatch == 2

\* the threads of the process
Threads == {"t1", "t2"}

\* None as the value of a model or tokenizer global (line 26); a loaded object
\* is the positive number of the load attempt that created it
None == 0

\* _model_lock held by nobody
Free == "free"

\* a label mapping global that is still None (lines 28, 33, 38)
NoLabels == <<>>

\* 1.0 in hundredths (the upper clamp of analyzer.py line 472)
One == 100

(***************************************************************************)
(* The registry: module globals of analyzer.py, lines 18-38.               *)
(***************************************************************************)
\* _ja_model_1 / _ja_model_2 / _multi_model and their tokenizers, label maps
Backends == {"ja1", "ja2", "multi"}

\* the order in which load_models loads the backends (lines 302, 316, 330)
LoadOrder == <<"ja1", "ja2", "multi">>

VARIABLES
    model,        \* backend -> None or the id of the loaded model object
    tokenizer,    \* backend -> None or the id of the loaded tokenizer object
    id2label,     \* backend -> NoLabels or the label mapping of the loaded model
    model_lock,   \* Free or the thread holding _model_lock
    fallback,     \* FALLBACK_TO_RULES_ONLY, fixed at import
    pc,           \* thread -> position in load_models / classify_comments
    op,           \* thread -> the entry point it called: "load" or "batch"
    cur,          \* thread -> index in LoadOrder of the backend being read by
                  \*           the fast check, or being loaded
    comments,     \* thread -> the list given to classify_comments
    idx,          \* thread -> index of the item being classified
    calls,        \* entry-point calls made so far
    given,        \* thread -> the list as it was when classify_comments was
                  \*           called                               (history)
    inferred,     \* thread -> per item, what _pytorch_inference returned
                  \*           for it                               (history)
    attempts,     \* backend -> load attempts begun so far          (history)
    succeeded,    \* backend -> load attempts completed successfully (history)
    failedOnce,   \* backend -> a load attempt of it has failed      (history)
    outcome,      \* thread -> backend -> result of its load in the thread's
                  \*           current load_models call             (history)
    probe,        \* SpecItem: the last single call made, its arguments and
                  \*           its result
    agg,          \* SpecAggregate: the last aggregate_video call, its
                  \*           arguments and its outcome
    pv,           \* SpecPipeline: the process_video call of the batch thread,
                  \*           its locals, the cache file and the outcome
    db,           \* SpecSummary: the video_comment_summary table, the
                  \*           connection pool and the save_summary call
                  \*           in progress
    mn            \* SpecMain: the main() call, its locals and what it
                  \*           has called

registry == <<model, tokenizer, id2label>>
history  == <<attempts, succeeded, failedOnce, outcome>>
batch    == <<comments, idx, given, inferred>>
\* what no step of load_models or classify_comments writes
\* what only the repository and main() write
outer    == <<db, mn>>
fixed    == <<fallback, probe, agg, pv, outer>>
vars == <<model, tokenizer, id2label, model_lock, fallback, pc, op, cur,
          comments, idx, calls, given, inferred, attempts, succeeded,
          failedOnce, outcome, probe, agg, pv, db, mn>>

(***************************************************************************)
(* Label mappings (config.id2label) a loaded model may declare.  A mapping *)
(* is the sequence of the labels of the raw indices 0, 1, 2, ...; the      *)
(* Python index i is position i+1.  "ja_positive" / "ja_negative" stand    *)
(* for the katakana labels of the 2-class backend (line 323).              *)
(***************************************************************************)
NegNeuPos == <<"negative", "neutral", "positive">>
PosNeuNeg == <<"positive", "neutral", "negative">>
JaPosNeg  == <<"ja_positive", "ja_negative">>
NegPos    == <<"NEGATIVE", "POSITIVE">>

\* the mapping the load of a backend installs for the models named at lines
\* 41-43, which is also the default of lines 309, 323, 337
LabelMapOf(b) == IF b = "ja2" THEN JaPosNeg ELSE NegNeuPos

\* only the first try block has an except clause
CatchesFirstOnly(b) == b = "ja1"

\* the three `except Exception` clauses of load_models (lines 311, 325, 339)
Catches(b) == TRUE

\* a quick check that forgets the multilingual model
QuickCheckedTwo == <<"ja1", "ja2">>

\* the globals the quick check of line 294 tests, in its order
QuickChecked == <<"ja1", "ja2", "multi">>

\* the check under the lock (line 299)
AllLoaded == \A b \in Backends : model[b] # None

NoOutcome == [b \in Backends |-> "none"]

\* positions from which a thread makes its next call
Callable == {"idle", "returned", "returned_rules", "raised", "item_raised"}

(***************************************************************************)
(* Texts.  The pipeline reads a comment text only through the tests below, *)
(* so a text is the record of their results:                               *)
(*   kind       "none"   None, empty or whitespace only (line 618),        *)
(*              "markup" only URLs and tags, empty once _preprocess_text   *)
(*                       has stripped them (lines 374-379, 622),           *)
(*              "plain"  anything else;                                    *)
(* and, of the preprocessed text,                                          *)
(*   jaChars    it has a hiragana, katakana or kanji character (line 358), *)
(*   detect     what langdetect answers: "ja", "other", or "error" for a   *)
(*              LangDetectException (lines 363-365),                       *)
(*   posWords, negWords   hits in POSITIVE_WORDS, NEGATIVE_WORDS (387-388),*)
(*   negMatch, posMatch   hits in STRONG_NEGATIVE_PATTERNS and             *)
(*              STRONG_POSITIVE_PATTERNS (lines 412-413),                  *)
(*   sarcasm, rhetorical, negation   a match in SARCASM_PATTERNS,          *)
(*              RHETORICAL_PATTERNS, NEGATION_PATTERNS (lines 416-420).    *)
(***************************************************************************)
\* hits counted in POSITIVE_WORDS / NEGATIVE_WORDS
MaxWords == 1
\* hits counted in STRONG_POSITIVE_PATTERNS / STRONG_NEGATIVE_PATTERNS
MaxHits == 2

EmptyText(k) ==
    [kind |-> k, jaChars |-> FALSE, detect |-> "error", posWords |-> 0,
     negWords |-> 0, negMatch |-> 0, posMatch |-> 0, sarcasm |-> FALSE,
     rhetorical |-> FALSE, negation |-> FALSE]

PlainTexts ==
    [kind : {"plain"}, jaChars : BOOLEAN, detect : {"ja", "other", "error"},
     posWords : 0..MaxWords, negWords : 0..MaxWords,
     negMatch : 0..MaxHits, posMatch : 0..MaxHits,
     sarcasm : BOOLEAN, rhetorical : BOOLEAN, negation : BOOLEAN]

Texts == {EmptyText("none"), EmptyText("markup")} \cup PlainTexts

(***************************************************************************)
(* Distributions.                                                          *)
(***************************************************************************)
Dist(p, n, u, d) == [positive |-> p, negative |-> n, neutral |-> u, den |-> d]

\* `None` returned by _single_model_inference (lines 498, 549)
NoResult == Dist(0, 0, 0, 0)

\* the balanced distribution of lines 546, 619, 623, 648, 652
Balanced == Dist(33, 33, 34, One)

\* fixed distributions with positive or negative level with neutral
FixedScoresTied(label) ==
    IF label = "pos" THEN Dist(40, 20, 40, One) ELSE Dist(20, 40, 40, One)

\* the fixed distributions of the rule-based label (lines 589, 591, 659, 661)
FixedScores(label) ==
    IF label = "pos" THEN Dist(60, 15, 25, One) ELSE Dist(15, 60, 25, One)

\* result["language"] = language (lines 631, 665) and the literals of 619...
Tagged(d, language) ==
    [positive |-> d.positive, negative |-> d.negative, neutral |-> d.neutral,
     den |-> d.den, language |-> language]

Untagged(s) == Dist(s.positive, s.negative, s.neutral, s.den)

\* an item without a 'sentiment' key
NoSentiment == Tagged(NoResult, "absent")

Min(a, b) == IF a < b THEN a ELSE b
Max(a, b) == IF a > b THEN a ELSE b

(***************************************************************************)
(* _detect_language, lines 345-368                                         *)
(***************************************************************************)
DetectLanguage(text) ==
    IF text.jaChars THEN "ja"
    ELSE IF text.detect = "ja" THEN "ja"
    ELSE "other"

\* only the first emptiness test (lines 618, 647) is made
EmptyOnlyIfBlank(text) == text.kind = "none"

(***************************************************************************)
(* _preprocess_text and the two emptiness tests around it, lines 618-623   *)
(* and 647-652: TRUE when the item short-circuits                          *)
(***************************************************************************)
EmptyAfterPreprocess(text) == text.kind \in {"none", "markup"}

(***************************************************************************)
(* _rule_based_classify, lines 382-394                                     *)
(***************************************************************************)
\* a tie between the word counts read as negative
RuleBasedClassifyTieNegative(text) ==
    IF text.posWords > text.negWords THEN "pos" ELSE "neg"

RuleBasedClassify(text) ==
    IF text.posWords >= text.negWords THEN "pos" ELSE "neg"

(***************************************************************************)
(* _adjust_sentiment_with_rules, lines 397-489.  Adjustments are in        *)
(* hundredths; NegativeAdjustment and PositiveAdjustment are the           *)
(* accumulators before the clamp of lines 467-468.                         *)
(***************************************************************************)
\* the positive rules applied without looking at negation
NegativeAdjustmentIgnoresNegation(text) ==
      (IF text.negMatch >= 2 THEN 25 ELSE IF text.negMatch >= 1 THEN 15 ELSE 0)
    + (IF text.sarcasm THEN 20 ELSE 0)
    + (IF text.rhetorical THEN 20 ELSE 0)
    + (IF text.posMatch >= 2 THEN -25
       ELSE IF text.posMatch >= 1 THEN -15
       ELSE 0)

NegativeAdjustment(text) ==
      (IF text.negMatch >= 2 THEN 25 ELSE IF text.negMatch >= 1 THEN 15 ELSE 0)
    + (IF text.sarcasm THEN 20 ELSE 0)
    + (IF text.rhetorical THEN 20 ELSE 0)
    + (IF text.posMatch >= 1 /\ text.negation THEN 20
       ELSE IF text.posMatch >= 2 /\ ~text.negation THEN -25
       ELSE IF text.posMatch >= 1 /\ ~text.negation THEN -15
       ELSE 0)

\* the positive boost applied to a negated positive as well
PositiveAdjustmentBoostsNegated(text) ==
      (IF text.negMatch >= 2 THEN -25 ELSE IF text.negMatch >= 1 THEN -15 ELSE 0)
    + (IF text.sarcasm THEN -20 ELSE 0)
    + (IF text.rhetorical THEN -20 ELSE 0)
    + (IF text.posMatch >= 1 /\ text.negation THEN -20 ELSE 0)
    + (IF text.posMatch >= 2 THEN 25 ELSE IF text.posMatch >= 1 THEN 15 ELSE 0)

PositiveAdjustment(text) ==
      (IF text.negMatch >= 2 THEN -25 ELSE IF text.negMatch >= 1 THEN -15 ELSE 0)
    + (IF text.sarcasm THEN -20 ELSE 0)
    + (IF text.rhetorical THEN -20 ELSE 0)
    + (IF text.posMatch >= 1 /\ text.negation THEN -20
       ELSE IF text.posMatch >= 2 /\ ~text.negation THEN 25
       ELSE IF text.posMatch >= 1 /\ ~text.negation THEN 15
       ELSE 0)

\* the accumulators applied as they are
ClampAdjustmentOmitted(a) == a

\* lines 467-468: max(min(x, 0.3), -0.3)
ClampAdjustment(a) == Max(Min(a, 30), -30)

\* the slot clamp left out
ClampSlotOmitted(x, den) == x

\* lines 472-473: max(min(x, 1.0), 0.0), for a numerator over den
ClampSlot(x, den) == Max(Min(x, den), 0)

\* line 474: max(x, 0.0)
ClampNeutral(x) == Max(x, 0)

\* the renormalisation left out
NormalizeOmitted(c) == c

\* lines 477-481: the triple divided by its total when the total is positive
Normalize(c) ==
    LET total == c.positive + c.negative + c.neutral IN
    IF total > 0 THEN Dist(c.positive, c.negative, c.neutral, total) ELSE c

\* scores.slot + adjustment as a numerator over One * scores.den
AdjustSentimentWithRules(text, scores) ==
    LET d    == One * scores.den
        nadj == ClampAdjustment(NegativeAdjustment(text))
        padj == ClampAdjustment(PositiveAdjustment(text))
        neg  == ClampSlot(One * scores.negative + nadj * scores.den, d)
        pos  == ClampSlot(One * scores.positive + padj * scores.den, d)
        neu  == ClampNeutral(One * scores.neutral)
    IN  Normalize(Dist(pos, neg, neu, d))

(***************************************************************************)
(* _single_model_inference, lines 492-549.  `raw` is what the tokenizer    *)
(* and the model do with the text: [error |-> TRUE] when either raises,    *)
(* else the softmax vector `scores` in hundredths.                         *)
(***************************************************************************)
\* str.lower() of a label (line 533)
Lower(label) ==
    CASE label = "POSITIVE" -> "positive"
      [] label = "NEGATIVE" -> "negative"
      [] OTHER -> label

\* id2label.get(0): the label of raw index 0, None for an empty mapping
LabelZero(labels) == IF Len(labels) >= 1 THEN labels[1] ELSE "None"

SingleModelInference(m, tok, labels, raw) ==
    IF m = None \/ tok = None THEN NoResult
    ELSE IF raw.error THEN NoResult
    ELSE LET scores == raw.scores IN
         IF Len(scores) = 3 THEN
            IF labels # NoLabels /\ LabelZero(labels) = "negative"
            THEN Dist(scores[3], scores[1], scores[2], One)
            ELSE Dist(scores[2], scores[1], scores[3], One)
         ELSE IF Len(scores) = 2 THEN
            IF labels # NoLabels /\ (LabelZero(labels) = "ja_positive"
                                     \/ Lower(LabelZero(labels)) = "positive")
            THEN Dist(scores[1], scores[2], 0, One)
            ELSE Dist(scores[2], scores[1], 0, One)
         ELSE Balanced

(***************************************************************************)
(* _pytorch_inference, lines 552-602.  r1, r2, rm are the results of       *)
(* _single_model_inference for the three backends.                         *)
(***************************************************************************)
\* the first result instead of the mean
AverageFirst(a, b) == a

\* lines 576-580: the mean of two results
Average(a, b) ==
    Dist(a.positive * b.den + b.positive * a.den,
         a.negative * b.den + b.negative * a.den,
         a.neutral * b.den + b.neutral * a.den,
         2 * a.den * b.den)

\* an inference that turns to the other family of backends before the rules
PytorchInferenceAnyBackend(text, language, r1, r2, rm) ==
    IF language = "ja" THEN
        IF r1 # NoResult /\ r2 # NoResult THEN Average(r1, r2)
        ELSE IF r1 # NoResult THEN r1
        ELSE IF r2 # NoResult THEN r2
        ELSE IF rm # NoResult THEN rm
        ELSE FixedScores(RuleBasedClassify(text))
    ELSE
        IF rm # NoResult THEN rm
        ELSE IF r1 # NoResult THEN r1
        ELSE FixedScores(RuleBasedClassify(text))

\* _pytorch_inference, lines 552-602
PytorchInference(text, language, r1, r2, rm) ==
    IF language = "ja" THEN
        IF r1 # NoResult /\ r2 # NoResult THEN Average(r1, r2)
        ELSE IF r1 # NoResult THEN r1
        ELSE IF r2 # NoResult THEN r2
        ELSE FixedScores(RuleBasedClassify(text))
    ELSE
        IF rm # NoResult THEN rm
        ELSE FixedScores(RuleBasedClassify(text))

(***************************************************************************)
(* classify_comment, lines 605-633                                         *)
(***************************************************************************)
ClassifyComment(text, r1, r2, rm) ==
    IF EmptyAfterPreprocess(text) THEN Tagged(Balanced, "unknown")
    ELSE LET language == DetectLanguage(text) IN
         Tagged(PytorchInference(text, language, r1, r2, rm), language)

\* the functions classify_comment calls for a text, _single_model_inference
\* being called by _pytorch_inference (lines 618-628)
ClassifyCommentInvokes(text) ==
    IF text.kind = "none" THEN {}
    ELSE IF EmptyAfterPreprocess(text) THEN {"_preprocess_text"}
    ELSE {"_preprocess_text", "_detect_language", "_pytorch_inference",
          "_single_model_inference"}

\* the rules-only classifier without the adjustment of line 664
ClassifyCommentRulesOnlyUnadjusted(text) ==
    IF EmptyAfterPreprocess(text) THEN Tagged(Balanced, "unknown")
    ELSE Tagged(FixedScores(RuleBasedClassify(text)), DetectLanguage(text))

(***************************************************************************)
(* _classify_comment_rules_only, lines 636-667                             *)
(***************************************************************************)
ClassifyCommentRulesOnly(text) ==
    IF EmptyAfterPreprocess(text) THEN Tagged(Balanced, "unknown")
    ELSE LET language == DetectLanguage(text)
             label == RuleBasedClassify(text)
         IN  Tagged(AdjustSentimentWithRules(text, FixedScores(label)), language)

\* the functions _classify_comment_rules_only calls for a text (lines 647-664)
RulesOnlyInvokes(text) ==
    IF text.kind = "none" THEN {}
    ELSE IF EmptyAfterPreprocess(text) THEN {"_preprocess_text"}
    ELSE {"_preprocess_text", "_detect_language", "_rule_based_classify",
          "_adjust_sentiment_with_rules"}

(***************************************************************************)
(* Entry: a thread calls load_models() directly, or classify_comments()    *)
(* which calls load_models() first (line 684).                             *)
(***************************************************************************)
CallLoadModels(t) ==
    /\ pc[t] \in Callable
    /\ calls < MaxCalls
    /\ calls' = calls + 1
    /\ op' = [op EXCEPT ![t] = "load"]
    /\ pc' = [pc EXCEPT ![t] = "fast"]
    /\ cur' = [cur EXCEPT ![t] = 1]
    /\ outcome' = [outcome EXCEPT ![t] = NoOutcome]
    /\ UNCHANGED <<registry, model_lock, fixed, batch, attempts, succeeded,
                   failedOnce>>

\* line 294: `a is not None and b is not None and c is not None`, one global
\* read per step, left to right, stopping at the first None
FastCheck(t) ==
    /\ pc[t] = "fast"
    /\ LET b == QuickChecked[cur[t]] IN
       IF model[b] = None
       THEN /\ pc' = [pc EXCEPT ![t] = "acquire"]
            /\ cur' = cur
       ELSE IF cur[t] < Len(QuickChecked)
       THEN /\ cur' = [cur EXCEPT ![t] = cur[t] + 1]
            /\ pc' = pc
       ELSE /\ pc' = [pc EXCEPT ![t] = "loaded"]
            /\ cur' = cur
    /\ UNCHANGED <<registry, model_lock, fixed, op, batch, calls, history>>

\* line 297: with _model_lock
Acquire(t) ==
    /\ pc[t] = "acquire"
    /\ model_lock = Free
    /\ model_lock' = t
    /\ pc' = [pc EXCEPT ![t] = "recheck"]
    /\ UNCHANGED <<registry, fixed, op, cur, batch, calls, history>>

\* lines 299-300: the check repeated under the lock
Recheck(t) ==
    /\ pc[t] = "recheck"
    /\ IF AllLoaded
       THEN /\ model_lock' = Free
            /\ pc' = [pc EXCEPT ![t] = "loaded"]
            /\ cur' = cur
       ELSE /\ model_lock' = model_lock
            /\ pc' = [pc EXCEPT ![t] = "tok"]
            /\ cur' = [cur EXCEPT ![t] = 1]
    /\ UNCHANGED <<registry, fixed, op, batch, calls, history>>

\* after the try/except of one backend: the next backend, or the end of the
\* with block
NextBackend(t) ==
    IF cur[t] < Len(LoadOrder)
    THEN /\ cur' = [cur EXCEPT ![t] = cur[t] + 1]
         /\ pc' = [pc EXCEPT ![t] = "tok"]
    ELSE /\ cur' = cur
         /\ pc' = [pc EXCEPT ![t] = "unlock"]

\* lines 305, 319, 333: the tokenizer global is assigned
LoadTokenizer(t) ==
    /\ pc[t] = "tok"
    /\ LET b == LoadOrder[cur[t]] IN
       /\ attempts' = [attempts EXCEPT ![b] = @ + 1]
       /\ tokenizer' = [tokenizer EXCEPT ![b] = attempts[b] + 1]
    /\ pc' = [pc EXCEPT ![t] = "mod"]
    /\ UNCHANGED <<model, id2label, model_lock, fixed, op, cur, batch, calls,
                   succeeded, failedOnce, outcome>>

\* lines 306, 320, 334: the model global is assigned
LoadModel(t) ==
    /\ pc[t] = "mod"
    /\ LET b == LoadOrder[cur[t]] IN
       model' = [model EXCEPT ![b] = attempts[b]]
    /\ pc' = [pc EXCEPT ![t] = "fin"]
    /\ UNCHANGED <<tokenizer, id2label, model_lock, fixed, op, cur, batch,
                   calls, history>>

\* lines 307-310, 321-324, 335-338: to(device), eval(), the label mapping
LoadFinish(t) ==
    /\ pc[t] = "fin"
    /\ LET b == LoadOrder[cur[t]] IN
       /\ id2label' = [id2label EXCEPT ![b] = LabelMapOf(b)]
       /\ succeeded' = [succeeded EXCEPT ![b] = @ + 1]
       /\ outcome' = [outcome EXCEPT ![t][b] = "ok"]
    /\ NextBackend(t)
    /\ UNCHANGED <<model, tokenizer, model_lock, fixed, op, batch, calls,
                   attempts, failedOnce>>

\* an exception in any statement of the try block, and the except clause
\* (lines 311-314, 325-328, 339-342)
LoadFail(t) ==
    /\ pc[t] \in {"tok", "mod", "fin"}
    /\ LET b == LoadOrder[cur[t]] IN
       /\ attempts' = IF pc[t] = "tok"
                      THEN [attempts EXCEPT ![b] = @ + 1] ELSE attempts
       /\ failedOnce' = [failedOnce EXCEPT ![b] = TRUE]
       /\ outcome' = [outcome EXCEPT ![t][b] = "fail"]
       /\ IF Catches(b)
          THEN /\ model' = [model EXCEPT ![b] = None]
               /\ tokenizer' = [tokenizer EXCEPT ![b] = None]
               /\ model_lock' = model_lock
               /\ NextBackend(t)
          ELSE /\ model_lock' = Free
               /\ pc' = [pc EXCEPT ![t] = "load_raised"]
               /\ UNCHANGED <<model, tokenizer, cur>>
    /\ UNCHANGED <<id2label, fixed, op, batch, calls, succeeded>>

\* the end of the with block (line 342)
Unlock(t) ==
    /\ pc[t] = "unlock"
    /\ model_lock' = Free
    /\ pc' = [pc EXCEPT ![t] = "loaded"]
    /\ UNCHANGED <<registry, fixed, op, cur, batch, calls, history>>

\* load_models() returns to a caller that called it directly
ReturnLoadModels(t) ==
    /\ pc[t] = "loaded"
    /\ op[t] = "load"
    /\ pc' = [pc EXCEPT ![t] = "idle"]
    /\ UNCHANGED <<registry, model_lock, fixed, op, cur, batch, calls, history>>

\* the steps of load_models (lines 287-342)
LoadModelsStep(t) ==
    \/ FastCheck(t)
    \/ Acquire(t)
    \/ Recheck(t)
    \/ LoadTokenizer(t)
    \/ LoadModel(t)
    \/ LoadFinish(t)
    \/ LoadFail(t)
    \/ Unlock(t)

(***************************************************************************)
(* classify_comments, lines 670-704.                                       *)
(***************************************************************************)
\* texts of the batches: '' (none), 'ひどい動画だ' (Japanese, one negative
\* word and pattern) and '12345' (no Japanese character, langdetect raises)
SampleTexts ==
    { EmptyText("none"),
      [EmptyText("plain") EXCEPT !.jaChars = TRUE, !.negWords = 1, !.negMatch = 1],
      EmptyText("plain") }

\* the comment dicts fetch_comments builds (fetch/youtube.py, lines 195-201);
\* author, like_count and published_at are opaque to the pipeline and stand
\* here as values that differ from item to item
Item(id, text, sentiment) ==
    [comment_id |-> id, author |-> <<"author", id>>, text |-> text,
     like_count |-> 10 * id, published_at |-> <<"published_at", id>>,
     sentiment |-> sentiment]

\* the assignment builds a new dict from two of the fields
AttachToCopy(comment, sentiment) ==
    [comment_id |-> comment.comment_id, author |-> <<"author", 0>>,
     text |-> comment.text, like_count |-> 0,
     published_at |-> <<"published_at", 0>>, sentiment |-> sentiment]

\* comment['sentiment'] = ... (lines 693, 702): the dict is updated in place
Attach(comment, sentiment) == [comment EXCEPT !.sentiment = sentiment]

\* the lists a caller gives: fetched items, which have no 'sentiment' yet
Batches ==
    UNION { [1..n -> SampleTexts] : n \in 0..MaxBatch }

NewBatch(texts) == [i \in 1..Len(texts) |-> Item(i, texts[i], NoSentiment)]

\* what a tokenizer and model may do with a text in a batch: raise, or emit
\* the scores of the backend's classes
Raised == [error |-> TRUE, scores |-> <<>>]
Scores(v) == [error |-> FALSE, scores |-> v]

RawOutputs(b) ==
    CASE b = "ja1" -> {Raised, Scores(<<10, 20, 70>>)}
      [] b = "ja2" -> {Raised, Scores(<<80, 20>>)}
      [] b = "multi" -> {Raised, Scores(<<60, 30, 10>>)}

\* _single_model_inference without its try/except
InferenceCatchesNothing(b) == FALSE

\* `except Exception` of _single_model_inference (line 547)
InferenceCatches(b) == TRUE

\* `except LangDetectException` of _detect_language (line 365)
DetectCatches == TRUE

CallClassifyComments(t) ==
    /\ pc[t] \in Callable
    /\ calls < MaxBatchCalls
    /\ calls' = calls + 1
    /\ op' = [op EXCEPT ![t] = "batch"]
    /\ \E texts \in Batches :
          /\ comments' = [comments EXCEPT ![t] = NewBatch(texts)]
          /\ given' = [given EXCEPT ![t] = NewBatch(texts)]
          /\ inferred' = [inferred EXCEPT ![t] = [i \in 1..Len(texts) |-> NoResult]]
    /\ idx' = [idx EXCEPT ![t] = 1]
    \* line 684: load_models()
    /\ pc' = [pc EXCEPT ![t] = "fast"]
    /\ cur' = [cur EXCEPT ![t] = 1]
    /\ outcome' = [outcome EXCEPT ![t] = NoOutcome]
    /\ UNCHANGED <<registry, model_lock, fixed, attempts, succeeded, failedOnce>>

\* line 687
AllModelsFailed == \A b \in Backends : model[b] = None

\* the flag is not consulted
FallbackAlways == TRUE

\* line 690: if FALLBACK_TO_RULES_ONLY
FallbackPermitted == fallback

\* lines 687-698: the branch taken once load_models() has returned
CheckModels(t) ==
    /\ pc[t] = "loaded"
    /\ op[t] = "batch"
    /\ pc' = [pc EXCEPT ![t] =
                 IF AllModelsFailed
                 THEN IF FallbackPermitted THEN "rules" ELSE "raised"
                 ELSE "items"]
    /\ UNCHANGED <<registry, model_lock, fixed, op, cur, batch, calls, history>>

\* line 693: one turn of the rules-only loop
RulesItem(t) ==
    /\ pc[t] = "rules"
    /\ idx[t] <= Len(comments[t])
    /\ LET i == idx[t]
           text == comments[t][i].text
       IN  IF text.kind = "plain" /\ ~text.jaChars /\ text.detect = "error"
              /\ ~DetectCatches
           THEN /\ pc' = [pc EXCEPT ![t] = "item_raised"]
                /\ UNCHANGED <<comments, idx>>
           ELSE /\ comments' = [comments EXCEPT ![t][i] =
                                   Attach(@, ClassifyCommentRulesOnly(text))]
                /\ idx' = [idx EXCEPT ![t] = i + 1]
                /\ pc' = pc
    /\ UNCHANGED <<registry, model_lock, fixed, op, cur, calls, given, inferred,
                   history>>

\* the backends _pytorch_inference passes to _single_model_inference for a
\* language (lines 571-572, 594)
Consulted(language) == IF language = "ja" THEN {"ja1", "ja2"} ELSE {"multi"}

\* line 702: one turn of the loop over the comments
ClassifyItem(t) ==
    /\ pc[t] = "items"
    /\ idx[t] <= Len(comments[t])
    /\ LET i == idx[t]
           text == comments[t][i].text
       IN  \E raw1 \in RawOutputs("ja1"), raw2 \in RawOutputs("ja2"),
              rawm \in RawOutputs("multi") :
             /\ LET raw == [b \in Backends |->
                              IF b = "ja1" THEN raw1
                              ELSE IF b = "ja2" THEN raw2 ELSE rawm]
                    r == [b \in Backends |->
                            SingleModelInference(model[b], tokenizer[b],
                                                 id2label[b], raw[b])]
                    escapes ==
                        /\ text.kind = "plain"
                        /\ \/ ~text.jaChars /\ text.detect = "error" /\ ~DetectCatches
                           \/ \E b \in Consulted(DetectLanguage(text)) :
                                 /\ model[b] # None /\ tokenizer[b] # None
                                 /\ raw[b].error
                                 /\ ~InferenceCatches(b)
                IN  IF escapes
                    THEN /\ pc' = [pc EXCEPT ![t] = "item_raised"]
                         /\ UNCHANGED <<comments, idx, inferred>>
                    ELSE /\ comments' = [comments EXCEPT ![t][i] =
                                Attach(@, ClassifyComment(text, r["ja1"], r["ja2"],
                                                          r["multi"]))]
                         /\ inferred' = [inferred EXCEPT ![t][i] =
                                IF EmptyAfterPreprocess(text) THEN NoResult
                                ELSE PytorchInference(text, DetectLanguage(text),
                                                      r["ja1"], r["ja2"], r["multi"])]
                         /\ idx' = [idx EXCEPT ![t] = i + 1]
                         /\ pc' = pc
    /\ UNCHANGED <<registry, model_lock, fixed, op, cur, calls, given, history>>

\* lines 694, 704: return comments
ReturnComments(t) ==
    /\ pc[t] \in {"items", "rules"}
    /\ idx[t] > Len(comments[t])
    /\ pc' = [pc EXCEPT ![t] = IF pc[t] = "items" THEN "returned" ELSE "returned_rules"]
    /\ UNCHANGED <<registry, model_lock, fixed, op, cur, batch, calls, history>>

(***************************************************************************)
(* Single calls of the per-item functions, on arguments drawn from the     *)
(* sets below: classify_comment on a registry in any state load_models     *)
(* leaves, _classify_comment_rules_only, and                               *)
(* _adjust_sentiment_with_rules on any base distribution.  The functions   *)
(* keep no state between calls, so each behaviour makes one call.          *)
(***************************************************************************)
\* scores in hundredths, in steps of 0.2
Grid == {0, 20, 40, 60, 80, 100}

\* softmax vectors: they sum to 1
Scores3 == {v \in [1..3 -> Grid] : v[1] + v[2] + v[3] = One}
Scores2 == {v \in [1..2 -> Grid] : v[1] + v[2] = One}

\* what the tokenizer and model of a backend may do with a text: raise, emit
\* the scores of its classes, or (3-class backends) a vector of another length
RawOf(b) ==
    IF b = "ja2"
    THEN {Raised} \cup {Scores(v) : v \in Scores2}
    ELSE {Raised, Scores(<<100>>)} \cup {Scores(v) : v \in Scores3}

\* the label mappings a 3-class config may declare: the orders of
\* negative, neutral, positive over the indices 0..2
Permutations3 ==
    LET L == {"negative", "neutral", "positive"} IN
    {l \in L \X L \X L : l[1] # l[2] /\ l[1] # l[3] /\ l[2] # l[3]}

\* label mappings a loaded backend may carry; NoLabels while the global is
\* still None
LabelsOf(b) ==
    IF b = "ja2" THEN {JaPosNeg, NegPos, NoLabels}
    ELSE Permutations3 \cup {NoLabels}

\* a backend as classify_comment finds it, with what it does with the text
NotLoaded == [loaded |-> FALSE, labels |-> NoLabels, raw |-> Raised]
BackendStates(b) ==
    {NotLoaded} \cup [loaded : {TRUE}, labels : LabelsOf(b), raw : RawOf(b)]

\* a backend that is not consulted for the text: not loaded, loaded and
\* raising, or loaded and answering "positive"
Unconsulted(b) ==
    {NotLoaded, [loaded |-> TRUE, labels |-> NoLabels, raw |-> Raised],
     [loaded |-> TRUE, labels |-> LabelMapOf(b),
      raw |-> IF b = "ja2" THEN Scores(<<80, 20>>)
              ELSE Scores(<<20, 0, 80>>)]}

\* classify_comment reads of a text what EmptyAfterPreprocess, DetectLanguage
\* and RuleBasedClassify read
InferenceTexts ==
    {t \in Texts : /\ t.negMatch = 0 /\ t.posMatch = 0
                   /\ ~t.sarcasm /\ ~t.rhetorical /\ ~t.negation}

\* _adjust_sentiment_with_rules reads of a text the pattern matches
AdjustTexts ==
    {t \in PlainTexts : /\ ~t.jaChars /\ t.detect = "error"
                        /\ t.posWords = 0 /\ t.negWords = 0}

\* base distributions with every slot in [0, 1]
BaseDists == {Dist(p, n, u, One) : p \in Grid, n \in Grid, u \in Grid}

NoBackends == [b \in Backends |-> NotLoaded]

NoProbe ==
    [op |-> "none", text |-> EmptyText("none"), base |-> NoResult,
     backends |-> NoBackends, invoked |-> {}, result |-> NoSentiment]

ObjectOf(bs) == IF bs.loaded THEN 1 ELSE None

\* _single_model_inference on a backend of a probe
ProbeInference(bs) ==
    SingleModelInference(ObjectOf(bs), ObjectOf(bs), bs.labels, bs.raw)

ProbeClassifyComment ==
    /\ probe.op = "none"
    /\ \E text \in InferenceTexts :
      \E b1 \in (IF DetectLanguage(text) = "ja" /\ text.kind = "plain"
                  THEN BackendStates("ja1")
                  ELSE Unconsulted("ja1")),
         b2 \in (IF DetectLanguage(text) = "ja" /\ text.kind = "plain"
                  THEN BackendStates("ja2")
                  ELSE Unconsulted("ja2")),
         bm \in (IF DetectLanguage(text) = "other" /\ text.kind = "plain"
                  THEN BackendStates("multi")
                  ELSE Unconsulted("multi")) :
        LET bs == [b \in Backends |->
                     IF b = "ja1" THEN b1 ELSE IF b = "ja2" THEN b2 ELSE bm]
            r1 == ProbeInference(b1)
            r2 == ProbeInference(b2)
            rm == ProbeInference(bm)
        IN  /\ probe' =
                 [op |-> "classify_comment", text |-> text,
                  base |-> IF EmptyAfterPreprocess(text) THEN NoResult
                           ELSE PytorchInference(text, DetectLanguage(text),
                                                 r1, r2, rm),
                  backends |-> bs,
                  invoked |-> ClassifyCommentInvokes(text),
                  result |-> ClassifyComment(text, r1, r2, rm)]
            /\ UNCHANGED <<registry, model_lock, outer, fallback, agg, pv, pc, op, cur, batch,
                           calls, history>>

ProbeRulesOnly ==
    /\ probe.op = "none"
    /\ \E text \in Texts :
        /\ probe' =
             [op |-> "rules_only", text |-> text,
              base |-> IF EmptyAfterPreprocess(text) THEN NoResult
                       ELSE FixedScores(RuleBasedClassify(text)),
              backends |-> NoBackends,
              invoked |-> RulesOnlyInvokes(text),
              result |-> ClassifyCommentRulesOnly(text)]
        /\ UNCHANGED <<registry, model_lock, outer, fallback, agg, pv, pc, op, cur, batch,
                       calls, history>>

ProbeAdjust ==
    /\ probe.op = "none"
    /\ \E text \in AdjustTexts, scores \in BaseDists :
        /\ probe' =
             [op |-> "adjust", text |-> text, base |-> scores,
              backends |-> NoBackends, invoked |-> {},
              result |-> Tagged(AdjustSentimentWithRules(text, scores), "none")]
        /\ UNCHANGED <<registry, model_lock, outer, fallback, agg, pv, pc, op, cur, batch,
                       calls, history>>

(***************************************************************************)
(* aggregate_video (aggregate/summarizer.py, lines 9-108).  A stored       *)
(* sentiment is what an item's 'sentiment' key holds when the aggregator   *)
(* or a cache validation reads it: the key may be absent (NoSentiment),    *)
(* the value may be something that is not a dict (None, or a label string  *)
(* of an older cache), or a dict in which any of the three keys may be     *)
(* missing.                                                                *)
(***************************************************************************)
\* the value of a slot whose key the dict does not have
Missing == -1

\* a 'sentiment' value that is not a dict
NotADict == Tagged(NoResult, "not_a_dict")

\* the default {} of comment.get('sentiment', {}) (line 51)
EmptyDict == Tagged(Dist(Missing, Missing, Missing, One), "missing")

\* line 51: comment.get('sentiment', {})
SentimentScores(comment) ==
    IF comment.sentiment = NoSentiment THEN EmptyDict ELSE comment.sentiment

\* lines 52-54: sentiment_scores.get(key, 0), a numerator over scores.den
Get(scores, key) == IF scores[key] = Missing THEN 0 ELSE scores[key]

\* a tie at the maximum goes to positive
BucketFavoursPositive(pos, neg, neu) ==
    IF pos >= neg /\ pos >= neu THEN "positive"
    ELSE IF neg >= neu THEN "negative" ELSE "other"

\* the final else of line 74 counts nothing
BucketDropsNeutral(pos, neg, neu) ==
    IF (pos = neg /\ pos >= neu) \/ (pos = neu /\ pos >= neg)
       \/ (neg = neu /\ neg >= pos) THEN "other"
    ELSE IF pos > neg /\ pos > neu THEN "positive"
    ELSE IF neg > pos /\ neg > neu THEN "negative"
    ELSE "uncounted"

\* lines 64-75: the bucket of an item with the three scores
Bucket(pos, neg, neu) ==
    LET max_score == Max(pos, Max(neg, neu))
        scores_at_max == (IF pos = max_score THEN 1 ELSE 0)
                       + (IF neg = max_score THEN 1 ELSE 0)
                       + (IF neu = max_score THEN 1 ELSE 0)
    IN  IF scores_at_max > 1 THEN "other"
        ELSE IF max_score = pos THEN "positive"
        ELSE IF max_score = neg THEN "negative"
        ELSE "other"

\* the bucket of a comment (lines 51-54, 64-75)
BucketOf(comment) ==
    LET scores == SentimentScores(comment) IN
    Bucket(Get(scores, "positive"), Get(scores, "negative"),
           Get(scores, "neutral"))

\* exact fractions for the running sums of lines 57-59
RECURSIVE GCD(_, _)
GCD(a, b) == IF b = 0 THEN a ELSE GCD(b, a % b)

Frac(n, d) == LET g == GCD(n, d) IN [num |-> n \div g, den |-> d \div g]

AddFrac(x, y) == Frac(x.num * y.den + y.num * x.den, x.den * y.den)

\* lines 50-59: the sum of a slot over the first n comments
RECURSIVE SumOf(_, _, _)
SumOf(comments_, key, n) ==
    IF n = 0 THEN Frac(0, 1)
    ELSE LET scores == SentimentScores(comments_[n]) IN
         AddFrac(SumOf(comments_, key, n - 1), Frac(Get(scores, key), scores.den))

\* lines 50-75: the number of the comments counted in a bucket
CountOf(comments_, bucket) ==
    Cardinality({i \in 1..Len(comments_) : BucketOf(comments_[i]) = bucket})

\* round(x / total, 4) in ten-thousandths (lines 78-84), ties to even
Round4(x, total) ==
    LET q == 10000 * x.num
        d == x.den * total
        lo == q \div d
        rem == q % d
    IN  IF 2 * rem > d \/ (2 * rem = d /\ lo % 2 = 1) THEN lo + 1 ELSE lo

\* video.get('video_id', '') (line 20); "absent" marks a dict without the key
VideoId(video) == IF video.video_id = "absent" THEN "" ELSE video.video_id

\* datetime.now().isoformat() (lines 37, 99): some timestamp string
Timestamp == "isoformat"

Summary(video_id, total, pc_, nc, oc, pr, nr, ps, ns, us) ==
    [video_id |-> video_id, total_comments |-> total,
     positive_count |-> pc_, negative_count |-> nc, other_count |-> oc,
     positive_ratio |-> pr, negative_ratio |-> nr,
     positive_score |-> ps, negative_score |-> ns, neutral_score |-> us,
     analyzed_at |-> Timestamp]

\* no summary: the call raised
NoSummary == Summary("", 0, 0, 0, 0, 0, 0, 0, 0, 0)

\* line 52: .get of something that is not a dict raises AttributeError
AggregateRaises(comments_) ==
    \E i \in 1..Len(comments_) : comments_[i].sentiment = NotADict

\* an empty list goes through the divisions of lines 78-84
AggregateVideoNoEmptyCase(video, comments_) ==
    [raised |-> Len(comments_) = 0 \/ AggregateRaises(comments_),
     summary |-> NoSummary]

\* aggregate_video: [raised, summary]
AggregateVideo(video, comments_) ==
    LET total == Len(comments_) IN
    IF total = 0
    THEN [raised |-> FALSE,
          summary |-> Summary(VideoId(video), 0, 0, 0, 0, 0, 0, 0, 0, 0)]
    ELSE IF AggregateRaises(comments_)
    THEN [raised |-> TRUE, summary |-> NoSummary]
    ELSE [raised |-> FALSE,
          summary |->
            Summary(VideoId(video), total,
                    CountOf(comments_, "positive"),
                    CountOf(comments_, "negative"),
                    CountOf(comments_, "other"),
                    Round4(Frac(CountOf(comments_, "positive"), 1), total),
                    Round4(Frac(CountOf(comments_, "negative"), 1), total),
                    Round4(SumOf(comments_, "positive", total), total),
                    Round4(SumOf(comments_, "negative", total), total),
                    Round4(SumOf(comments_, "neutral", total), total))]

(***************************************************************************)
(* Single calls of aggregate_video on lists drawn from the sets below.     *)
(***************************************************************************)
\* comments in a list given to aggregate_video
MaxItems == 2

\* the values a slot of a stored dict takes: missing, 0.2 or 0.4
SlotValues == {Missing, 20, 40}

StoredDicts ==
    {Tagged(Dist(p, n, u, One), "ja") : p \in SlotValues, n \in SlotValues,
                                         u \in SlotValues}

StoredSentiments == StoredDicts \cup {NoSentiment, NotADict}

Videos == {[video_id |-> "v1", title |-> "t1"],
           [video_id |-> "absent", title |-> "t1"]}

StoredLists ==
    UNION { [1..n -> StoredSentiments] : n \in 0..MaxItems }

\* the items of a list of stored sentiments
StoredItems(ss) == [i \in 1..Len(ss) |-> Item(i, EmptyText("plain"), ss[i])]

\* get_dominant_sentiment of display_comments (streamlit_app.py, lines
\* 240-252), applied to c.get('sentiment'): None for an item without the key
GetDominantSentiment(sentiment) ==
    IF sentiment \in {NoSentiment, NotADict} THEN "neutral"
    ELSE LET pos == Get(sentiment, "positive")
             neg == Get(sentiment, "negative")
             neu == Get(sentiment, "neutral")
             max_score == Max(pos, Max(neg, neu))
         IN  IF max_score = pos THEN "positive"
             ELSE IF max_score = neg THEN "negative"
             ELSE "neutral"

NoAggregate ==
    [op |-> "none", video |-> [video_id |-> "", title |-> ""],
     comments |-> <<>>, raised |-> FALSE, summary |-> NoSummary,
     shown |-> FALSE, labels |-> <<>>]

CallAggregateVideo ==
    /\ agg.op = "none"
    /\ \E video \in Videos, ss \in StoredLists :
          LET out == AggregateVideo(video, StoredItems(ss)) IN
          agg' = [op |-> "aggregate_video", video |-> video,
                  comments |-> StoredItems(ss),
                  raised |-> out.raised, summary |-> out.summary,
                  shown |-> FALSE, labels |-> <<>>]
    /\ UNCHANGED <<registry, model_lock, outer, fallback, probe, pv, pc, op, cur,
                   batch, calls, history>>

\* display_comments (streamlit_app.py, lines 225-258) on the same list: the
\* label its filter gives each comment
DisplayComments ==
    /\ agg.op = "aggregate_video"
    /\ ~agg.shown
    /\ agg' = [agg EXCEPT
                 !.shown = TRUE,
                 !.labels = [i \in 1..Len(agg.comments) |->
                               GetDominantSentiment(agg.comments[i].sentiment)]]
    /\ UNCHANGED <<registry, model_lock, outer, fallback, probe, pv, pc, op,
                   cur, batch, calls, history>>

(***************************************************************************)
(* process_video (main.py, lines 38-107).  The cache-hit path of           *)
(* analyze_video (streamlit_app.py, lines 113-139) is the same code.  The  *)
(* call of classify_comments is made by the actions of classify_comments   *)
(* above; the environment decides what the cache file holds, what the      *)
(* fetches return and whether the cache write and the database writes      *)
(* succeed.  process_video keeps nothing from one call to the next, so     *)
(* each behaviour makes one call, in a process that has loaded no model.   *)
(***************************************************************************)
\* the JSON cache file of the video: whether load_json finds and parses it
\* (utils/cache.py, lines 49-62) and the 'comments' it holds
File(exists, comments_) ==
    [exists |-> exists, video_id |-> "v1", title |-> "t1",
     comments |-> comments_]

NoFile == File(FALSE, <<>>)

\* a well-formed stored sentiment
StoredValid == Tagged(Dist(60, 15, 25, One), "ja")

\* a stored dict without the 'negative' key
StoredPartial == Tagged(Dist(60, Missing, 25, One), "other")

\* the comments a cache file may hold: text and stored sentiment
CachedKinds ==
    LET ja == [EmptyText("plain") EXCEPT !.jaChars = TRUE, !.negWords = 1,
                                         !.negMatch = 1]
    IN  { [text |-> ja, sentiment |-> StoredValid],
          [text |-> ja, sentiment |-> NoSentiment],
          [text |-> EmptyText("none"), sentiment |-> NotADict],
          [text |-> EmptyText("plain"), sentiment |-> StoredPartial] }

CachedLists ==
    UNION { [1..n -> CachedKinds] : n \in 0..MaxBatch }

CachedComments(ks) ==
    [i \in 1..Len(ks) |-> Item(i, ks[i].text, ks[i].sentiment)]

CacheFiles == {NoFile} \cup {File(TRUE, CachedComments(ks)) : ks \in CachedLists}

\* every cached sentiment counts as well-formed
ValidSentimentAlways(sentiment) == TRUE

\* lines 64-65: isinstance(sentiment, dict) and all three keys in it
ValidSentiment(sentiment) ==
    /\ sentiment # NoSentiment
    /\ sentiment # NotADict
    /\ \A key \in {"positive", "negative", "neutral"} : sentiment[key] # Missing

\* lines 59-68: the validation loop
NeedsReclassification(comments_) ==
    \E i \in 1..Len(comments_) : ~ValidSentiment(comments_[i].sentiment)

\* every exception is caught on both paths
TryCoversAlways(path) == TRUE

\* lines 83-107: the try / except Exception encloses the fetch path only
TryCovers(path) == path = "fetch"

\* what fetch_video does (line 84): a video, None, or an exception
FetchVideoOutcomes == {"video", "none", "error"}

\* what fetch_comments does (line 89): a list, or an exception
FetchCommentsOutcomes ==
    {[error |-> TRUE, comments |-> <<>>]}
      \cup {[error |-> FALSE, comments |-> NewBatch(texts)] : texts \in Batches}

NoRun ==
    [step |-> "idle", path |-> "none", file |-> NoFile, loaded |-> NoFile, comments |-> <<>>,
     reclassified |-> FALSE, save_called |-> FALSE,
     reached |-> FALSE, passed |-> <<>>, file_then |-> NoFile,
     summary |-> NoSummary, db |-> "none", result |-> "none"]

\* line 72 / line 90: comments = classify_comments(comments), the entry of
\* classify_comments with the list
EnterClassifyComments(t, list) ==
    /\ calls' = calls + 1
    /\ op' = [op EXCEPT ![t] = "batch"]
    /\ comments' = [comments EXCEPT ![t] = list]
    /\ given' = [given EXCEPT ![t] = list]
    /\ inferred' = [inferred EXCEPT ![t] = [i \in 1..Len(list) |-> NoResult]]
    /\ idx' = [idx EXCEPT ![t] = 1]
    /\ pc' = [pc EXCEPT ![t] = "fast"]
    /\ cur' = [cur EXCEPT ![t] = 1]
    /\ outcome' = [outcome EXCEPT ![t] = NoOutcome]

\* an exception leaves a step of process_video: caught inside the try
\* (lines 105-107, return None), propagated outside it
Failed(run) ==
    [run EXCEPT !.step = "done",
                !.result = IF TryCovers(run.path) THEN "None" ELSE "raised"]

\* lines 50-72 and 82-90: from the call to the call of classify_comments,
\* or to the aggregation when the cached sentiments are valid, or to the
\* return when a fetch fails
CallProcessVideo(t) ==
    /\ pc[t] \in Callable
    /\ pv.step = "idle"
    \* without use_cache the file is not read, and it is left out
    /\ \E use_cache \in BOOLEAN :
       \E file \in (IF use_cache THEN CacheFiles ELSE {NoFile}),
          fv \in FetchVideoOutcomes, fc \in FetchCommentsOutcomes :
        LET run == [NoRun EXCEPT !.file = file]
        IN  IF use_cache /\ file.exists
            THEN \* lines 54-75
                 LET hit == [run EXCEPT !.path = "cache", !.loaded = file,
                                        !.comments = file.comments]
                 IN  IF NeedsReclassification(file.comments)
                     THEN /\ pv' = [hit EXCEPT !.step = "classifying",
                                               !.reclassified = TRUE]
                          /\ EnterClassifyComments(t, file.comments)
                          /\ UNCHANGED <<registry, model_lock, outer, fallback, probe,
                                         agg, attempts, succeeded, failedOnce>>
                     ELSE /\ pv' = [hit EXCEPT !.step = "aggregate"]
                          /\ UNCHANGED <<registry, model_lock, outer, fallback, probe,
                                         agg, pc, op, cur, batch, calls, history>>
            ELSE \* lines 83-90
                 LET miss == [run EXCEPT !.path = "fetch"] IN
                 IF fv = "video" /\ ~fc.error
                 THEN /\ pv' = [miss EXCEPT !.step = "classifying",
                                            !.comments = fc.comments]
                      /\ EnterClassifyComments(t, fc.comments)
                      /\ UNCHANGED <<registry, model_lock, outer, fallback, probe,
                                     agg, attempts, succeeded, failedOnce>>
                 ELSE /\ pv' = IF fv = "none"
                               THEN [miss EXCEPT !.step = "done",
                                                 !.result = "None"]
                               ELSE Failed(miss)
                      /\ UNCHANGED <<registry, model_lock, outer, fallback, probe,
                                     agg, pc, op, cur, batch, calls, history>>

\* lines 72-74 and 90-96: classify_comments has returned or raised; the
\* data with the classified comments is given to save_json, whose write may
\* fail (utils/cache.py, lines 31-36: logged, False returned, ignored here)
AfterClassify(t) ==
    /\ pv.step = "classifying"
    /\ op[t] = "batch"
    /\ pc[t] \in {"returned", "returned_rules", "raised"}
    /\ IF pc[t] = "raised"
       THEN pv' = Failed(pv)
       ELSE \E written \in BOOLEAN :
              LET data == File(TRUE, comments[t]) IN
              pv' = [pv EXCEPT !.step = "aggregate",
                               !.comments = comments[t],
                               !.loaded = data,
                               !.save_called = TRUE,
                               !.file = IF written THEN data ELSE pv.file]
    /\ UNCHANGED <<registry, model_lock, outer, fallback, probe, agg, pc, op, cur,
                   batch, calls, history>>

\* what save_video and save_summary do (repository/mysql.py, lines 157-160
\* and 210-213): succeed, or re-raise the database error
DbOutcomes == {"ok", "error"}

\* lines 76-80 and 99-103: aggregate_video, save_video, save_summary, return
AggregateAndSave(t) ==
    /\ pv.step = "aggregate"
    /\ \E dbv \in DbOutcomes, dbs \in DbOutcomes :
         LET video == [video_id |-> pv.loaded.video_id,
                       title |-> pv.loaded.title]
             out == AggregateVideo(video, pv.comments)
             seen == [pv EXCEPT !.reached = TRUE, !.passed = pv.comments,
                                !.file_then = pv.file]
         IN  pv' = IF out.raised THEN Failed(seen)
                   ELSE IF dbv = "error"
                   THEN Failed([seen EXCEPT !.summary = out.summary])
                   ELSE IF dbs = "error"
                   THEN Failed([seen EXCEPT !.summary = out.summary,
                                            !.db = "video"])
                   ELSE [seen EXCEPT !.summary = out.summary,
                                     !.db = "video and summary",
                                     !.step = "done", !.result = "data"]
    /\ UNCHANGED <<registry, model_lock, outer, fallback, probe, agg, pc, op, cur,
                   batch, calls, history>>

(***************************************************************************)
(* save_summary (repository/mysql.py, lines 166-216) against the table     *)
(* video_comment_summary.  The connection is not in autocommit mode: the   *)
(* statements of a call act on the transaction's view of the table, commit *)
(* publishes the view and rollback discards it.  Calls follow one another; *)
(* each statement, the commit, get_connection and cursor() may fail with a *)
(* database error.                                                         *)
(***************************************************************************)
\* save_summary calls made in a behaviour
MaxSaves == 3

\* the summaries handed to save_summary: what aggregate_video returns for
\* an empty list and for a list of one positive item
SavedLists == {<<>>, <<Tagged(Dist(40, 20, 20, One), "ja")>>}

SummariesToSave ==
    {AggregateVideo(video, StoredItems(ss)).summary :
        video \in Videos, ss \in SavedLists}

\* the columns of the INSERT (lines 186-204): the scores are not stored
Row(summary) ==
    [video_id |-> summary.video_id,
     total_comments |-> summary.total_comments,
     positive_count |-> summary.positive_count,
     negative_count |-> summary.negative_count,
     other_count |-> summary.other_count,
     positive_ratio |-> summary.positive_ratio,
     negative_ratio |-> summary.negative_ratio,
     analyzed_at |-> summary.analyzed_at]

\* the rows of a table for one video
RowsOf(rows, video_id) == SelectSeq(rows, LAMBDA r : r.video_id = video_id)

\* a DELETE that removes nothing
DeleteNothing(rows, video_id) == rows

\* DELETE FROM video_comment_summary WHERE video_id = %s (lines 181-184)
DeleteWhere(rows, video_id) ==
    SelectSeq(rows, LAMBDA r : r.video_id # video_id)

\* INSERT INTO video_comment_summary ... (line 206)
InsertRow(rows, row) == Append(rows, row)

\* outcomes of a call on the connection or the cursor
Outcomes == {"ok", "error"}

NoDatabase ==
    [step |-> "idle", table |-> <<>>, tx |-> <<>>, out |-> 0, saves |-> 0,
     summary |-> NoSummary, before |-> <<>>, out_before |-> 0,
     log |-> <<>>, failed_at |-> "none", result |-> "none"]

\* lines 173-177: get_connection() and conn.cursor(), both before the try
CallSaveSummary ==
    /\ db.step = "idle"
    /\ db.saves < MaxSaves
    /\ \E summary \in SummariesToSave, connect \in Outcomes,
          cursor \in Outcomes :
          LET call == [db EXCEPT !.saves = @ + 1, !.summary = summary,
                                 !.before = db.table, !.out_before = db.out,
                                 !.tx = db.table, !.log = <<>>,
                                 !.failed_at = "none", !.result = "none"]
          IN  db' = IF connect = "error"
                    THEN [call EXCEPT !.failed_at = "get_connection",
                                      !.result = "raised"]
                    ELSE IF cursor = "error"
                    THEN [call EXCEPT !.out = @ + 1,
                                      !.failed_at = "cursor",
                                      !.result = "raised"]
                    ELSE [call EXCEPT !.out = @ + 1, !.step = "delete"]
    /\ UNCHANGED <<registry, model_lock, fallback, probe, agg, pv, mn, pc,
                   op, cur, batch, calls, history>>

\* lines 181-184
ExecuteDelete ==
    /\ db.step = "delete"
    /\ \E outcome_ \in Outcomes :
          db' = IF outcome_ = "ok"
                THEN [db EXCEPT !.tx = DeleteWhere(@, db.summary.video_id),
                                !.log = Append(@, "DELETE"),
                                !.step = "insert"]
                ELSE [db EXCEPT !.log = Append(@, "DELETE"),
                                !.failed_at = "delete", !.step = "except"]
    /\ UNCHANGED <<registry, model_lock, fallback, probe, agg, pv, mn, pc,
                   op, cur, batch, calls, history>>

\* lines 186-206
ExecuteInsert ==
    /\ db.step = "insert"
    /\ \E outcome_ \in Outcomes :
          db' = IF outcome_ = "ok"
                THEN [db EXCEPT !.tx = InsertRow(@, Row(db.summary)),
                                !.log = Append(@, "INSERT"),
                                !.step = "commit"]
                ELSE [db EXCEPT !.log = Append(@, "INSERT"),
                                !.failed_at = "insert", !.step = "except"]
    /\ UNCHANGED <<registry, model_lock, fallback, probe, agg, pv, mn, pc,
                   op, cur, batch, calls, history>>

\* line 207: a commit that fails publishes nothing
Commit ==
    /\ db.step = "commit"
    /\ \E outcome_ \in Outcomes :
          db' = IF outcome_ = "ok"
                THEN [db EXCEPT !.table = db.tx, !.log = Append(@, "commit"),
                                !.result = "returned", !.step = "finally"]
                ELSE [db EXCEPT !.log = Append(@, "commit"),
                                !.failed_at = "commit", !.step = "except"]
    /\ UNCHANGED <<registry, model_lock, fallback, probe, agg, pv, mn, pc,
                   op, cur, batch, calls, history>>

\* lines 210-213: except Error: rollback and re-raise
RollbackAndRaise ==
    /\ db.step = "except"
    /\ db' = [db EXCEPT !.tx = db.table, !.log = Append(@, "rollback"),
                        !.result = "raised", !.step = "finally"]
    /\ UNCHANGED <<registry, model_lock, fallback, probe, agg, pv, mn, pc,
                   op, cur, batch, calls, history>>

\* lines 214-216: finally: cursor.close() and conn.close()
CloseConnection ==
    /\ db.step = "finally"
    /\ db' = [db EXCEPT !.out = @ - 1, !.step = "idle"]
    /\ UNCHANGED <<registry, model_lock, fallback, probe, agg, pv, mn, pc,
                   op, cur, batch, calls, history>>

(***************************************************************************)
(* main (main.py, lines 110-140): the loop over the video ids.  A          *)
(* process_video call is taken by its outcome: the data dict, None, or an  *)
(* exception.                                                              *)
(***************************************************************************)
\* video ids on a command line
MaxVideos == 3

\* the ids a command line names; an id may be named twice
VideoIdLists ==
    UNION { [1..n -> {"v1", "v2"}] : n \in 0..MaxVideos }

\* what a process_video call does: return data, return None, raise
ProcessVideoResults == {"data", "None", "raised"}

\* the except clause catches nothing
CatchesNothing(result) == FALSE

\* line 133: except Exception
CatchesException(result) == result = "raised"

\* line 129: `if result`
Truthy(result) == result = "data"

NoMain ==
    [step |-> "idle", video_ids |-> <<>>, next |-> 1, processed |-> <<>>,
     results |-> <<>>, success_count |-> 0, fail_count |-> 0,
     closed |-> 0, closed_after |-> 0]

\* lines 110-124
CallMain ==
    /\ mn.step = "idle"
    /\ \E video_ids \in VideoIdLists :
          mn' = [mn EXCEPT !.step = "loop", !.video_ids = video_ids]
    /\ UNCHANGED <<registry, model_lock, fallback, probe, agg, pv, db, pc,
                   op, cur, batch, calls, history>>

\* lines 126-135: one iteration of the for loop
ProcessNextVideo ==
    /\ mn.step = "loop"
    /\ mn.next <= Len(mn.video_ids)
    /\ \E result \in ProcessVideoResults :
          LET called == [mn EXCEPT
                           !.processed = Append(@, mn.video_ids[mn.next]),
                           !.results = Append(@, result),
                           !.next = @ + 1]
          IN  mn' = IF result = "raised"
                    THEN IF CatchesException(result)
                         THEN [called EXCEPT !.fail_count = @ + 1]
                         ELSE [called EXCEPT !.step = "raised"]
                    ELSE IF Truthy(result)
                    THEN [called EXCEPT !.success_count = @ + 1]
                    ELSE [called EXCEPT !.fail_count = @ + 1]
    /\ UNCHANGED <<registry, model_lock, fallback, probe, agg, pv, db, pc,
                   op, cur, batch, calls, history>>

\* lines 137-140: after the loop, close_connection() and return
CloseAndReturn ==
    /\ mn.step = "loop"
    /\ mn.next > Len(mn.video_ids)
    /\ mn' = [mn EXCEPT !.step = "returned", !.closed = @ + 1,
                        !.closed_after = Len(mn.processed)]
    /\ UNCHANGED <<registry, model_lock, fallback, probe, agg, pv, db, pc,
                   op, cur, batch, calls, history>>

Init ==
    /\ model = [b \in Backends |-> None]
    /\ tokenizer = [b \in Backends |-> None]
    /\ id2label = [b \in Backends |-> NoLabels]
    /\ model_lock = Free
    /\ fallback \in BOOLEAN
    /\ pc = [t \in Threads |-> "idle"]
    /\ op = [t \in Threads |-> "load"]
    /\ cur = [t \in Threads |-> 1]
    /\ comments = [t \in Threads |-> <<>>]
    /\ idx = [t \in Threads |-> 1]
    /\ calls = 0
    /\ given = [t \in Threads |-> <<>>]
    /\ inferred = [t \in Threads |-> <<>>]
    /\ attempts = [b \in Backends |-> 0]
    /\ succeeded = [b \in Backends |-> 0]
    /\ failedOnce = [b \in Backends |-> FALSE]
    /\ outcome = [t \in Threads |-> NoOutcome]
    /\ probe = NoProbe
    /\ agg = NoAggregate
    /\ pv = NoRun
    /\ db = NoDatabase
    /\ mn = NoMain

\* threads calling load_models() concurrently
NextLoad ==
    \E t \in Threads :
        \/ CallLoadModels(t)
        \/ LoadModelsStep(t)
        \/ ReturnLoadModels(t)

SpecLoad == Init /\ [][NextLoad]_vars

\* the thread that runs the batches
BatchThread == "t1"

Next ==
    \/ CallClassifyComments(BatchThread)
    \/ LoadModelsStep(BatchThread)
    \/ CheckModels(BatchThread)
    \/ RulesItem(BatchThread)
    \/ ClassifyItem(BatchThread)
    \/ ReturnComments(BatchThread)

Spec == Init /\ [][Next]_vars

\* single calls of the per-item functions
NextItem ==
    \/ ProbeClassifyComment
    \/ ProbeRulesOnly
    \/ ProbeAdjust

SpecItem == Init /\ [][NextItem]_vars

\* a process_video call of the batch thread
NextPipeline ==
    \/ CallProcessVideo(BatchThread)
    \/ LoadModelsStep(BatchThread)
    \/ CheckModels(BatchThread)
    \/ RulesItem(BatchThread)
    \/ ClassifyItem(BatchThread)
    \/ ReturnComments(BatchThread)
    \/ AfterClassify(BatchThread)
    \/ AggregateAndSave(BatchThread)

SpecPipeline == Init /\ [][NextPipeline]_vars

\* single calls of aggregate_video
NextAggregate ==
    \/ CallAggregateVideo
    \/ DisplayComments

SpecAggregate == Init /\ [][NextAggregate]_vars

\* save_summary calls, one after the other
NextSummary ==
    \/ CallSaveSummary
    \/ ExecuteDelete
    \/ ExecuteInsert
    \/ Commit
    \/ RollbackAndRaise
    \/ CloseConnection

SpecSummary == Init /\ [][NextSummary]_vars

\* one run of main()
NextMain ==
    \/ CallMain
    \/ ProcessNextVideo
    \/ CloseAndReturn

SpecMain == Init /\ [][NextMain]_vars


(***************************************************************************)
(* Properties.                                                             *)
(***************************************************************************)
\* two distributions with the same three values
SameDist(a, b) ==
    /\ a.positive * b.den = b.positive * a.den
    /\ a.negative * b.den = b.negative * a.den
    /\ a.neutral * b.den = b.neutral * a.den

\* positive + negative + neutral is 1.0 within 0.01
SumsToOne(d) ==
    LET sum == d.positive + d.negative + d.neutral IN
    /\ d.den > 0
    /\ One * (sum - d.den) <= d.den
    /\ One * (d.den - sum) <= d.den

\* every slot is in [0, 1]
InUnitRange(d) ==
    /\ d.den > 0
    /\ \A x \in {d.positive, d.negative, d.neutral} : 0 <= x /\ x <= d.den

\* the items of t's list that the loop of classify_comments has passed
Classified(t) == 1..(idx[t] - 1)

\* C1: in a batch run with a backend available, the sentiment attached to
\* every item with a non-empty text is the rule adjustment engine applied to
\* what inference returned for it
C1_AdjustedSentimentAttached ==
    \A t \in Threads :
        pc[t] \in {"items", "returned"} =>
            \A i \in Classified(t) :
                LET c == comments[t][i] IN
                ~EmptyAfterPreprocess(c.text) =>
                    SameDist(Untagged(c.sentiment),
                             AdjustSentimentWithRules(c.text, inferred[t][i]))

\* C2: whatever the calls of load_models and the outcomes of the loads, no
\* backend is loaded more than once
C2_LoadedAtMostOnce == \A b \in Backends : succeeded[b] <= 1

\* C3: once a load of a backend has failed, no step attempts to load that
\* backend again
C3_FailedLoadNeverRetried ==
    [][\A b \in Backends : failedOnce[b] => attempts'[b] = attempts[b]]_vars

\* C4: a caller that has returned from load_models, by either path, finds
\* that a load of each of the three backends has been attempted
C4_NoReturnBeforeAllAttempted ==
    \A t \in Threads :
        pc[t] = "loaded" => \A b \in Backends : attempts[b] >= 1

\* C4 witness: a caller has returned by the quick check, having loaded
\* nothing itself, while another thread is still inside the locked section
C4_ReturnedWhileOtherLoads ==
    \E t \in Threads :
        /\ pc[t] = "loaded"
        /\ outcome[t] = NoOutcome
        /\ model_lock \in Threads \ {t}

\* C5: load_models never raises, and at the end of its locked section every
\* backend has had its load attempted in this call, the failed ones are
\* recorded as model None and tokenizer None and the others are available
C5_LoadFailuresAreLocal ==
    \A t \in Threads :
        /\ pc[t] # "load_raised"
        /\ pc[t] = "unlock" =>
              \A b \in Backends :
                  /\ outcome[t][b] \in {"ok", "fail"}
                  /\ outcome[t][b] = "fail" =>
                        model[b] = None /\ tokenizer[b] = None
                  /\ outcome[t][b] = "ok" =>
                        model[b] # None /\ tokenizer[b] # None

\* C5 witness: a call in which the first and the last load failed and the
\* load between them succeeded
C5_MixedOutcome ==
    \E t \in Threads :
        /\ pc[t] = "unlock"
        /\ outcome[t] = [b \in Backends |-> IF b = "ja2" THEN "ok" ELSE "fail"]

\* positions of classify_comments after the test of line 689
AfterCheck == {"items", "rules", "returned", "returned_rules", "raised"}

\* C6: with all three backends unavailable and the fallback flag false,
\* classify_comments raises and the list is as it was given
C6_FatalWithoutPartialResults ==
    \A t \in Threads :
        (op[t] = "batch" /\ pc[t] \in AfterCheck /\ AllModelsFailed /\ ~fallback)
            => (pc[t] = "raised" /\ comments[t] = given[t])

\* C6 witness: a batch of at least one item was refused
C6_BatchRefused ==
    \E t \in Threads :
        /\ op[t] = "batch" /\ pc[t] = "raised"
        /\ Len(given[t]) >= 1
        /\ AllModelsFailed /\ ~fallback

\* the sentiment C7 describes: language detection, the fixed distribution
\* of the rule-based label, then the rule adjustment engine
RulesOnlySentiment(text) ==
    Tagged(AdjustSentimentWithRules(text, FixedScores(RuleBasedClassify(text))),
           DetectLanguage(text))

\* classify_comments has returned from the rules-only branch
ReturnedRulesOnly(t) == op[t] = "batch" /\ pc[t] = "returned_rules"

\* C7 as stated: in the rules-only fallback every item of the batch gets
\* the adjusted fixed distribution of its rule-based label
C7_EveryItemAdjustedFixed ==
    \A t \in Threads :
        ReturnedRulesOnly(t) =>
            \A i \in 1..Len(comments[t]) :
                comments[t][i].sentiment = RulesOnlySentiment(comments[t][i].text)

\* C7 amended: with all backends unavailable and the flag true,
\* classify_comments does not raise, returns a list of the length given,
\* and every item whose text is non-empty after preprocessing gets the
\* adjusted fixed distribution of its rule-based label, with no inference;
\* an item whose text is empty gets the balanced distribution tagged unknown
C7_RulesOnlyFallback ==
    \A t \in Threads :
        /\ (op[t] = "batch" /\ pc[t] \in AfterCheck /\ AllModelsFailed /\ fallback)
              => pc[t] \in {"rules", "returned_rules"}
        /\ ReturnedRulesOnly(t) =>
              /\ Len(comments[t]) = Len(given[t])
              /\ \A i \in 1..Len(comments[t]) :
                    LET c == comments[t][i] IN
                    /\ c.text = given[t][i].text
                    /\ inferred[t][i] = NoResult
                    /\ c.sentiment =
                          IF EmptyAfterPreprocess(c.text)
                          THEN Tagged(Balanced, "unknown")
                          ELSE RulesOnlySentiment(c.text)

\* C7 witness: a rules-only batch returned with an item whose adjustment
\* changed the fixed distribution and an item with an empty text
C7_RulesOnlyReturned ==
    \E t \in Threads :
        /\ ReturnedRulesOnly(t)
        /\ \E i, j \in 1..Len(comments[t]) :
              /\ EmptyAfterPreprocess(comments[t][i].text)
              /\ comments[t][j].text.negMatch >= 1
              /\ ~SameDist(Untagged(comments[t][j].sentiment),
                           FixedScores(RuleBasedClassify(comments[t][j].text)))

\* C8: the distribution classify_comment or the rules-only classifier
\* returns sums to 1.0 within 0.01 on every path
C8_SumsToOne ==
    probe.op \in {"classify_comment", "rules_only"} =>
        SumsToOne(Untagged(probe.result))

\* C8 witness: the mean of two backends' results (one of them 2-class) was
\* returned
C8_EnsembleReturned ==
    /\ probe.op = "classify_comment"
    /\ probe.result.language = "ja"
    /\ \A b \in {"ja1", "ja2"} :
          probe.backends[b].loaded /\ ~probe.backends[b].raw.error
    /\ probe.result.neutral > 0

\* C9: the distribution returned on every path, and by the rule adjustment
\* engine for every base distribution with slots in [0, 1], has every slot
\* in [0, 1]
C9_SlotsInUnitRange ==
    probe.op # "none" => InUnitRange(Untagged(probe.result))

\* C9 witness: an adjustment took negative above 1 and positive below 0
\* before the slots were clamped
C9_ClampedBothWays ==
    /\ probe.op = "adjust"
    /\ One * probe.base.negative
         + ClampAdjustment(NegativeAdjustment(probe.text)) * probe.base.den
         > One * probe.base.den
    /\ One * probe.base.positive
         + ClampAdjustment(PositiveAdjustment(probe.text)) * probe.base.den
         < 0

\* C10: with a backend available no exception leaves classify_comments;
\* every item of a returned list has a sentiment, a raising backend counts
\* as no result, and a failed language detection is the 'other' branch
C10_NoExceptionLeavesBatch ==
    \A t \in Threads :
        /\ pc[t] # "item_raised"
        /\ pc[t] \in {"items", "returned"} =>
              \A i \in Classified(t) :
                  LET c == comments[t][i] IN
                  /\ c.sentiment # NoSentiment
                  /\ (c.text.kind = "plain" /\ ~c.text.jaChars
                        /\ c.text.detect = "error")
                        => c.sentiment.language = "other"
        /\ pc[t] = "returned" => idx[t] = Len(given[t]) + 1

\* C10 witness: a returned batch with a Japanese item for which both loaded
\* Japanese backends raised, and an item on which language detection failed
C10_BackendRaisedAndDetectFailed ==
    \E t \in Threads :
        /\ pc[t] = "returned"
        /\ \A b \in {"ja1", "ja2"} : model[b] # None /\ tokenizer[b] # None
        /\ \E i, j \in 1..Len(comments[t]) :
              /\ comments[t][i].text.jaChars
              /\ inferred[t][i] = FixedScores(RuleBasedClassify(comments[t][i].text))
              /\ comments[t][j].text.kind = "plain"
              /\ ~comments[t][j].text.jaChars
              /\ comments[t][j].text.detect = "error"
              /\ comments[t][j].sentiment.language = "other"

\* the fields of an item other than 'sentiment'
OtherFields == {"comment_id", "author", "text", "like_count", "published_at"}

\* C11: at every point of classify_comments, on the model path and on the
\* rules-only path, the list has the length given and the i-th item has the
\* comment_id, author, text, like_count and published_at of the i-th item
\* given
C11_OtherFieldsUntouched ==
    \A t \in Threads :
        /\ Len(comments[t]) = Len(given[t])
        /\ \A i \in 1..Len(comments[t]) :
              /\ DOMAIN comments[t][i] = OtherFields \cup {"sentiment"}
              /\ \A f \in OtherFields : comments[t][i][f] = given[t][i][f]

\* C11 witness: a list of two different items was returned with a sentiment
\* attached to each
C11_TwoItemsReturned ==
    \E t \in Threads :
        /\ pc[t] \in {"returned", "returned_rules"}
        /\ Len(comments[t]) = 2
        /\ comments[t][1].text # comments[t][2].text
        /\ \A i \in 1..2 : comments[t][i].sentiment # NoSentiment

\* C12: for a text that is None, empty, blank or empty once URLs and markup
\* are stripped, classify_comment and the rules-only classifier both return
\* exactly {0.33, 0.33, 0.34} tagged 'unknown' and call neither language
\* detection, inference, rule-based labelling nor rule adjustment
C12_EmptyTextShortCircuits ==
    (probe.op \in {"classify_comment", "rules_only"}
       /\ probe.text.kind \in {"none", "markup"})
    => /\ probe.result = [positive |-> 33, negative |-> 33, neutral |-> 34,
                          den |-> 100, language |-> "unknown"]
       /\ probe.invoked \subseteq {"_preprocess_text"}

\* C12 witness: classify_comment was called on a text of URLs and markup
\* only while backends were loaded
C12_MarkupOnlyClassified ==
    /\ probe.op = "classify_comment"
    /\ probe.text.kind = "markup"
    /\ \A b \in Backends : probe.backends[b].loaded

\* the three slots of a distribution
Slots == {"positive", "negative", "neutral"}

\* the probe was classify_comment on a Japanese text for which both
\* Japanese backends returned a distribution
BothPrimaryReturned ==
    /\ probe.op = "classify_comment"
    /\ probe.text.kind = "plain"
    /\ DetectLanguage(probe.text) = "ja"
    /\ ProbeInference(probe.backends["ja1"]) # NoResult
    /\ ProbeInference(probe.backends["ja2"]) # NoResult

\* C13: when both Japanese backends return distributions A and B, every
\* slot of the result is (A_i + B_i) / 2; B from the 2-class backend has
\* neutral 0.0, so the neutral slot is then half of A's
C13_EnsembleIsMean ==
    BothPrimaryReturned =>
        LET A == ProbeInference(probe.backends["ja1"])
            B == ProbeInference(probe.backends["ja2"])
            r == probe.result
        IN  /\ r.language = "ja"
            /\ \A i \in Slots :
                  2 * r[i] * A.den * B.den = r.den * (A[i] * B.den + B[i] * A.den)
            /\ Len(probe.backends["ja2"].raw.scores) = 2 =>
                  /\ B.neutral = 0
                  /\ 2 * r.neutral * A.den = r.den * A.neutral

\* C13 witness: a 3-class result with a positive neutral slot was combined
\* with a different 2-class result
C13_ThreeAndTwoClassCombined ==
    /\ BothPrimaryReturned
    /\ Len(probe.backends["ja1"].raw.scores) = 3
    /\ Len(probe.backends["ja2"].raw.scores) = 2
    /\ ProbeInference(probe.backends["ja1"]).neutral > 0
    /\ ProbeInference(probe.backends["ja1"]).positive
         # ProbeInference(probe.backends["ja2"]).positive

\* the value aggregate_video reads for a slot of the i-th comment given
Read(i, key) == Get(SentimentScores(agg.comments[i]), key)

\* the slot is the strict unique maximum of the i-th comment
StrictMax(i, key) == \A other \in Slots \ {key} : Read(i, key) > Read(i, other)

\* two or more slots of the i-th comment are equal at the maximum
TiedAtMax(i) ==
    \E j, k \in Slots :
        /\ j # k
        /\ Read(i, j) = Read(i, k)
        /\ \A other \in Slots : Read(i, other) <= Read(i, j)

Returned == agg.op = "aggregate_video" /\ ~agg.raised

\* C14: positive_count (negative_count) is the number of items in which
\* positive (negative) is the strict unique maximum, so an item with two or
\* three slots equal at the maximum is in neither and is in other_count
C14_TieCountsAsOther ==
    Returned =>
        LET n == Len(agg.comments) IN
        /\ agg.summary.positive_count
             = Cardinality({i \in 1..n : StrictMax(i, "positive")})
        /\ agg.summary.negative_count
             = Cardinality({i \in 1..n : StrictMax(i, "negative")})
        /\ agg.summary.other_count >= Cardinality({i \in 1..n : TiedAtMax(i)})

\* C14 witness: a list of an item with positive and negative tied at the
\* maximum and an item with all three slots equal gave other_count 2
C14_TiesAggregated ==
    /\ Returned
    /\ Len(agg.comments) = 2
    /\ Read(1, "positive") = 40 /\ Read(1, "negative") = 40
    /\ Read(1, "neutral") = 20
    /\ Read(2, "positive") = 20 /\ Read(2, "negative") = 20
    /\ Read(2, "neutral") = 20
    /\ agg.summary.other_count = 2

\* the three counts add up to total_comments, the number of items given
CountsAddUp ==
    /\ agg.summary.total_comments = Len(agg.comments)
    /\ agg.summary.positive_count + agg.summary.negative_count
         + agg.summary.other_count = agg.summary.total_comments

\* C15 as stated: for every list, whatever the sentiments of its items,
\* aggregate_video returns a summary whose counts add up to the total
C15_CountsAddUpForEveryList ==
    agg.op = "aggregate_video" => (~agg.raised /\ CountsAddUp)

\* C15 amended: for every list in which each item has no 'sentiment' key or
\* a dict (any of the three keys may be missing), the counts add up to
\* total_comments, the number of items; a list with a 'sentiment' that is
\* not a dict makes aggregate_video raise
C15_CountsAddUpForDicts ==
    agg.op = "aggregate_video" =>
        IF \E i \in 1..Len(agg.comments) : agg.comments[i].sentiment = NotADict
        THEN agg.raised
        ELSE ~agg.raised /\ CountsAddUp

\* C15 witness: an item without 'sentiment' and an item whose dict has only
\* the neutral key were both counted
C15_IncompleteItemsCounted ==
    /\ Returned
    /\ Len(agg.comments) = 2
    /\ agg.comments[1].sentiment = NoSentiment
    /\ agg.comments[2].sentiment.positive = Missing
    /\ agg.comments[2].sentiment.negative = Missing
    /\ agg.comments[2].sentiment.neutral = 40
    /\ agg.summary.total_comments = 2

\* C16: on an empty list aggregate_video does not raise and returns total 0,
\* the three counts 0, both ratios 0.0, the three average scores 0.0, the
\* video's id and a timestamp
C16_EmptyBatchSummary ==
    (agg.op = "aggregate_video" /\ Len(agg.comments) = 0) =>
        /\ ~agg.raised
        /\ agg.summary =
             [video_id |-> IF agg.video.video_id = "absent" THEN ""
                           ELSE agg.video.video_id,
              total_comments |-> 0, positive_count |-> 0,
              negative_count |-> 0, other_count |-> 0,
              positive_ratio |-> 0, negative_ratio |-> 0,
              positive_score |-> 0, negative_score |-> 0,
              neutral_score |-> 0, analyzed_at |-> agg.summary.analyzed_at]
        /\ agg.summary.analyzed_at # ""

\* C16 witness: aggregate_video was called on an empty list for a video
\* with an id
C16_EmptyBatchAggregated ==
    /\ agg.op = "aggregate_video"
    /\ Len(agg.comments) = 0
    /\ agg.video.video_id = "v1"
    /\ agg.summary.video_id = "v1"

\* the probe was the adjustment of {0.6, 0.2, 0.2} for a text with a
\* positive-pattern hit and a negation word
NegatedPositiveAdjusted ==
    /\ probe.op = "adjust"
    /\ probe.base = Dist(60, 20, 20, One)
    /\ probe.text.posMatch >= 1
    /\ probe.text.negation

IndexOf(labels, label) == CHOOSE i \in 1..Len(labels) : labels[i] = label

\* the probe was classify_comment on a text of another language, for which
\* the multilingual backend emitted three scores under a declared mapping
ThreeScoresMapped ==
    /\ probe.op = "classify_comment"
    /\ probe.text.kind = "plain"
    /\ DetectLanguage(probe.text) = "other"
    /\ probe.backends["multi"].loaded
    /\ probe.backends["multi"].labels \in Permutations3
    /\ ~probe.backends["multi"].raw.error
    /\ Len(probe.backends["multi"].raw.scores) = 3

\* C20: for three raw scores and any declared order of negative, neutral,
\* positive, each slot of the result is the raw score at the index the
\* mapping declares for that slot
C20_IndexedThroughMapping ==
    ThreeScoresMapped =>
        LET b == probe.backends["multi"] IN
        \A slot \in Slots :
            probe.result[slot] * One
              = b.raw.scores[IndexOf(b.labels, slot)] * probe.result.den

\* a sentiment that is a dict with the keys positive, negative and neutral
WellFormed(sentiment) ==
    /\ sentiment.language \notin {"absent", "not_a_dict"}
    /\ \A slot \in Slots : sentiment[slot] >= 0

\* aggregate_video has been reached on the cache-hit path
AggregatedFromCache == pv.reached /\ pv.path = "cache"

\* what reaches aggregate_video on the cache-hit path: well-formed
\* sentiments only, the list classify_comments returned when the cache held
\* an item that was not well-formed, the cached list otherwise
C18_OnlyWellFormedAggregated ==
    AggregatedFromCache =>
        /\ \A i \in 1..Len(pv.passed) : WellFormed(pv.passed[i].sentiment)
        /\ IF \E i \in 1..Len(given[BatchThread]) :
                 ~WellFormed(given[BatchThread][i].sentiment)
           THEN /\ pv.reclassified
                /\ pc[BatchThread] \in {"returned", "returned_rules"}
                /\ pv.passed = comments[BatchThread]
                /\ Len(pv.passed) = Len(given[BatchThread])
                /\ pv.save_called
           ELSE /\ ~pv.reclassified
                /\ pv.passed = pv.file.comments

C19_NoneOnEveryFailure ==
    /\ pv.result # "raised"
    /\ pv.step = "done" =>
          /\ pv.result \in {"data", "None"}
          /\ pv.result = "data" <=> pv.db = "video and summary"

\* the save_summary call has ended
SaveEnded == db.step = "idle" /\ db.saves > 0

\* C21: save_summary issues DELETE, then INSERT, then one commit; an error
\* in either statement is followed by a rollback and a raise, without a
\* commit, and leaves the table as it was; a call that returns leaves the
\* video with the one row of its summary and the other videos' rows as they
\* were; a failed commit is rolled back as well; the connection is back in
\* the pool when the try block is left; no video ever has two rows
C21_SummaryReplacedAtomically ==
    /\ \A summary \in SummariesToSave :
          Len(RowsOf(db.table, summary.video_id)) <= 1
    /\ (SaveEnded /\ db.result = "returned") =>
          /\ db.log = <<"DELETE", "INSERT", "commit">>
          /\ RowsOf(db.table, db.summary.video_id) = <<Row(db.summary)>>
          /\ \A summary \in SummariesToSave :
                summary.video_id # db.summary.video_id =>
                    RowsOf(db.table, summary.video_id)
                        = RowsOf(db.before, summary.video_id)
          /\ db.out = db.out_before
    /\ (SaveEnded /\ db.failed_at \in {"delete", "insert"}) =>
          /\ db.result = "raised"
          /\ db.log \in {<<"DELETE", "rollback">>,
                         <<"DELETE", "INSERT", "rollback">>}
          /\ db.table = db.before
          /\ db.out = db.out_before
    /\ (SaveEnded /\ db.failed_at = "commit") =>
          /\ db.result = "raised"
          /\ db.log = <<"DELETE", "INSERT", "commit", "rollback">>
          /\ db.table = db.before
          /\ db.out = db.out_before

\* C21 witness: a summary of the video was stored, a second save replaced
\* it, and a third save of the same video failed in its INSERT
C21_ReplacedThenFailed ==
    /\ SaveEnded
    /\ db.saves = 3
    /\ db.failed_at = "insert"
    /\ db.summary.video_id = "v1"
    /\ db.summary.total_comments = 0
    /\ Len(db.table) = 2
    /\ RowsOf(db.table, "v1")[1].total_comments = 1

\* what an adjust call added to a slot of its base, as a numerator over
\* the denominator of the result before its renormalisation
Added(slot) == probe.result[slot] - One * probe.base[slot]

\* the slot clamp of lines 472-473 did not act on the slot
Unsaturated(slot) ==
    /\ probe.result[slot] > 0
    /\ probe.result[slot] < One * probe.base.den

TowardNegative(text) ==
      (CASE text.negMatch >= 2 -> 25 [] text.negMatch = 1 -> 15 [] OTHER -> 0)
    + (IF text.sarcasm THEN 20 ELSE 0)
    + (IF text.rhetorical THEN 20 ELSE 0)
    + (IF text.posMatch >= 1 /\ text.negation THEN 20 ELSE 0)

TowardPositive(text) ==
    IF text.posMatch >= 1 /\ text.negation THEN 0
    ELSE CASE text.posMatch >= 2 -> 25 [] text.posMatch = 1 -> 15 [] OTHER -> 0

Inferred == probe.op = "classify_comment" /\ probe.text.kind = "plain"

\* what _single_model_inference makes of a backend of the probe
ResultOf(b) == ProbeInference(probe.backends[b])

\* C24: an item for which no consulted backend produces a result gets
\* {0.6, 0.15, 0.25} when the rule-based label is positive and
\* {0.15, 0.6, 0.25} otherwise; an 'other' item gets the multilingual
\* backend's result or the fixed distribution and a primary-language item
\* the primary backends' results, their mean or the fixed distribution,
\* whatever the backends of the other family would answer
C24_FixedFallbackPerFamily ==
    Inferred =>
        LET fixed_ == IF probe.text.posWords >= probe.text.negWords
                      THEN Dist(60, 15, 25, One)
                      ELSE Dist(15, 60, 25, One)
            result == Untagged(probe.result)
        IN  IF probe.result.language = "ja"
            THEN /\ (ResultOf("ja1") = NoResult /\ ResultOf("ja2") = NoResult)
                        => result = fixed_
                 /\ result \in {fixed_, ResultOf("ja1"), ResultOf("ja2"),
                                Average(ResultOf("ja1"), ResultOf("ja2"))}
            ELSE /\ ResultOf("multi") = NoResult => result = fixed_
                 /\ result \in {fixed_, ResultOf("multi")}

\* C24 witness: an 'other'-language text with more negative than positive
\* words, the multilingual backend not loaded and both primary backends
\* loaded and answering: the result is {0.15, 0.6, 0.25}
C24_OnlyPrimaryAvailable ==
    /\ Inferred
    /\ probe.result.language = "other"
    /\ probe.text.negWords > probe.text.posWords
    /\ ~probe.backends["multi"].loaded
    /\ ResultOf("ja1") # NoResult
    /\ ResultOf("ja2") # NoResult
    /\ Untagged(probe.result) = Dist(15, 60, 25, One)

\* the last load_models() call of thread t went through the loading section
\* and has returned
HasReturned(t) == pc[t] \in {"idle", "loaded"} /\ outcome[t] # NoOutcome

\* C25: once a load_models() call has returned with a backend available,
\* the backend keeps that model object: no step of a later call, sequential
\* or concurrent, unsets or replaces it
C25_AvailabilityMonotonic ==
    [][\A b \in Backends :
          (model[b] # None /\ \E t \in Threads : HasReturned(t))
              => model'[b] = model[b]]_vars

\* thread t is inside the with block of lines 297-342
InLockedSection(t) == model_lock = t

\* C26: when a load_models() call returns while another thread is inside
\* the locked loading section, every backend whose model is set has its
\* tokenizer and its label mapping set as well
C26_ObservedBackendsInitialised ==
    \A t \in Threads : \A u \in Threads \ {t} :
        (pc[t] = "loaded" /\ InLockedSection(u)) =>
            \A b \in Backends :
                model[b] # None =>
                    (tokenizer[b] # None /\ id2label[b] # NoLabels)

\* classify_comment was called while no backend was available
CalledWithoutBackends ==
    /\ probe.op = "classify_comment"
    /\ \A b \in Backends : ~probe.backends[b].loaded

\* classify_comment returned the fixed distribution of the rule-based label
\* and no load of a backend was begun
FixedWithoutLoading ==
    /\ Untagged(probe.result)
          = (IF probe.text.posWords >= probe.text.negWords
             THEN Dist(60, 15, 25, One) ELSE Dist(15, 60, 25, One))
    /\ \A b \in Backends : attempts[b] = 0 /\ model[b] = None

\* C27 as stated: every text that is not None, empty or blank gets the
\* fixed distribution when no backend is available
C27_FixedForEveryNonEmptyText ==
    (CalledWithoutBackends /\ probe.text.kind # "none") => FixedWithoutLoading

\* C27 amended: classify_comment loads nothing and raises nothing; with no
\* backend available, whatever FALLBACK_TO_RULES_ONLY is, a text that is
\* non-empty after preprocessing gets the fixed distribution of its
\* rule-based label, and a text that preprocessing empties gets the balanced
\* distribution tagged 'unknown'
C27_FixedWhenNonEmptyAfterPreprocess ==
    CalledWithoutBackends =>
        /\ \A b \in Backends : attempts[b] = 0 /\ model[b] = None
        /\ probe.text.kind = "plain" => FixedWithoutLoading
        /\ probe.text.kind = "markup" =>
              probe.result = Tagged(Dist(33, 33, 34, One), "unknown")

\* C27 witness: with the fallback flag off and nothing loaded, a text with
\* one negative word and no positive word got {0.15, 0.6, 0.25}
C27_NothingLoadedFlagOff ==
    /\ CalledWithoutBackends
    /\ ~fallback
    /\ probe.text.kind = "plain"
    /\ probe.text.negWords = 1
    /\ probe.text.posWords = 0
    /\ probe.result.language = "ja"
    /\ Untagged(probe.result) = Dist(15, 60, 25, One)

\* _classify_comment_rules_only was called on a text
RulesOnlyCalled == probe.op = "rules_only"

\* the list of the probed item followed by an item with a blank text, as a
\* rules-only batch returns it
RulesOnlyBatch ==
    <<Item(1, probe.text, probe.result),
      Item(2, EmptyText("none"), ClassifyCommentRulesOnly(EmptyText("none")))>>

\* C28: the rules-only distribution of a text that is non-empty after
\* preprocessing has its maximum strictly at positive or strictly at
\* negative, whatever the text matches; that of an emptied text has it at
\* neutral; aggregate_video counts as other exactly the empty-text items of
\* a rules-only batch
C28_RulesOnlyNeverOther ==
    RulesOnlyCalled =>
        LET r == probe.result
            summary ==
                AggregateVideo([video_id |-> "v1", title |-> "t1"],
                               RulesOnlyBatch).summary
        IN  /\ probe.text.kind = "plain" =>
                  /\ \/ r.positive > r.negative /\ r.positive > r.neutral
                     \/ r.negative > r.positive /\ r.negative > r.neutral
                  /\ summary.other_count = 1
                  /\ summary.positive_count + summary.negative_count = 1
            /\ probe.text.kind # "plain" =>
                  /\ r.neutral > r.positive /\ r.neutral > r.negative
                  /\ summary.other_count = 2

\* C28 witness: a text labelled positive by its words but matching a
\* negative pattern, sarcasm and a rhetorical question: the adjustment moves
\* the maximum to negative, {0.3, 0.45, 0.25}
C28_AdjustedAcrossToNegative ==
    /\ RulesOnlyCalled
    /\ probe.text.kind = "plain"
    /\ probe.text.posWords >= probe.text.negWords
    /\ probe.text.sarcasm
    /\ probe.text.rhetorical
    /\ probe.text.negMatch = 1
    /\ 100 * probe.result.positive = 30 * probe.result.den
    /\ 100 * probe.result.negative = 45 * probe.result.den
    /\ BucketOf(RulesOnlyBatch[1]) = "negative"

\* C29: the label the display filter gives a comment and the bucket the
\* aggregator counts it in agree on every distribution, the filter's
\* 'neutral' being the aggregator's 'other', ties at the maximum included
C29_DisplayAgreesWithBucket ==
    (agg.shown /\ ~agg.raised) =>
        \A i \in 1..Len(agg.comments) :
            LET bucket == BucketOf(agg.comments[i]) IN
            agg.labels[i] = (IF bucket = "other" THEN "neutral" ELSE bucket)

\* failures among the first n results
RECURSIVE FailuresIn(_, _)
FailuresIn(results, n) ==
    IF n = 0 THEN 0
    ELSE FailuresIn(results, n - 1) + (IF results[n] = "data" THEN 0 ELSE 1)

\* C30: main calls process_video on the video ids in their order, once per
\* entry, whatever the earlier calls did; a None and an exception count as
\* failures, the data dict as a success; main does not raise; when it
\* returns every id has been processed, the two counters add up to the
\* number of ids, and close_connection has been called once, after the last
\* video and not before
C30_EveryVideoProcessedOnce ==
    /\ mn.step # "raised"
    /\ mn.processed = SubSeq(mn.video_ids, 1, Len(mn.processed))
    /\ mn.fail_count = FailuresIn(mn.results, Len(mn.results))
    /\ mn.success_count + mn.fail_count = Len(mn.processed)
    /\ mn.step = "loop" => mn.closed = 0
    /\ mn.step = "returned" =>
          /\ mn.processed = mn.video_ids
          /\ mn.success_count + mn.fail_count = Len(mn.video_ids)
          /\ mn.closed = 1
          /\ mn.closed_after = Len(mn.video_ids)

\* C30 witness: of three videos the first raised, the second returned None
\* and the third succeeded; main returned with 1 success and 2 failures
C30_LaterVideosAfterFailures ==
    /\ mn.step = "returned"
    /\ mn.results = <<"raised", "None", "data">>
    /\ mn.processed = <<"v1", "v2", "v1">>
    /\ mn.success_count = 1
    /\ mn.fail_count = 2
    /\ mn.closed = 1

=============================================================================
